---- MODULE Spec2Model ----
(***************************************************************************)
(* Model of the cycles game server (src/src/server/server.cpp) and of the  *)
(* random bot client (src/src/client/client_randomio.cpp).                 *)
(*                                                                         *)
(* Three server threads are modelled: main(), the accept thread running    *)
(* GameServer::acceptClients and the server thread running                 *)
(* GameServer::gameLoop.  The Game object (game_logic.h) is not part of    *)
(* the sources at hand; its operations are modelled from their contract.   *)
(* Sockets are abstracted to the Id they are registered under; the         *)
(* outcome of every socket call is a nondeterministic choice.              *)
(***************************************************************************)
EXTENDS Integers, FiniteSets, Sequences, TLC

(* ------------------------------ bounds -------------------------------- *)
\* conf.maxClients: read from the configuration file, any positive number
maxClients == 2
\* ticks explored before the model stops starting new ones
MaxFrame == 2
\* direction codes a client may send are 0..MaxDir
MaxDir == 1
\* the bot's grid is GridSize x GridSize
GridSize == 2
\* the bot's inertia is 0 or MaxInertia
MaxInertia == 1

(* ------------------------- program constants -------------------------- *)
max_client_communication_time == 50
max_attempts == 200

\* time (ms) that may pass between two iterations' readings of
\* clientCommunicationClock
Durations == {0, 25}

Ids == 1..(maxClients + 1)
Dirs == 0..MaxDir
EmptyDirs == [i \in {} |-> 0]

VARIABLES
  mainPc,           \* position of main()
  acceptPc,         \* position of the accept thread in acceptClients
  loopPc,           \* position of the server thread in gameLoop
  acceptingClients, \* GameServer::acceptingClients
  running,          \* GameServer::running
  frame,            \* GameServer::frame
  serverMutex,      \* GameServer::serverMutex: "free" or "held"
  clientSockets,    \* keys of GameServer::clientSockets
  disconnected,     \* registered sockets whose getRemoteAddress() is None
  players,          \* keys of game->getPlayers()
  nextId,           \* next Id handed out by game->addPlayer
  gameOver,         \* game->isGameOver()
  id,               \* acceptClients: local id (0 before the first join)
  colorStatus,      \* acceptClients: status of the last colour send
  clientsUnsent,    \* gameLoop: keys of local clientsUnsent
  toRecieve,        \* gameLoop: keys of local toRecieve
  newDirs,          \* gameLoop: local newDirs
  timedOutPlayers,  \* gameLoop: local timedOutPlayers
  commElapsed,      \* clientCommunicationClock when receiveClientInput was last called, in ms
  packetBuilt,      \* gameLoop: sendGameState has built a packet in this tick
  packetFailed,     \* gameLoop: sendGameState has failed to build one in this tick
  lateDirs,         \* gameLoop: ids whose input reached the socket after the deadline
  botPc,            \* position of the bot in BotClient::decideMove
  position,         \* my_player.position, <<x, y>>
  occupied,         \* state: the cells that are not empty
  playerPositions,  \* state.getPlayerPositions()
  previousDirection,\* BotClient::previousDirection
  inertia,          \* BotClient::inertia
  inertialDamping,  \* decideMove: local inertialDamping
  attempts,         \* decideMove: local attempts
  direction,        \* decideMove: local direction (-1 before the first draw)
  proposalDrawn     \* decideMove: the last value of dist(rng) (-1 before it)

vars == <<mainPc, acceptPc, loopPc, acceptingClients, running, frame,
          serverMutex, clientSockets, disconnected, players, nextId,
          gameOver, id, colorStatus, clientsUnsent, toRecieve, newDirs,
          timedOutPlayers, commElapsed, packetBuilt, packetFailed, lateDirs, botPc, position, occupied,
          playerPositions, previousDirection, inertia, inertialDamping,
          attempts, direction, proposalDrawn>>

botVars == <<botPc, position, occupied, playerPositions, previousDirection,
             inertia, inertialDamping, attempts, direction, proposalDrawn>>
serverVars == <<mainPc, acceptPc, loopPc, acceptingClients, running, frame,
                serverMutex, clientSockets, disconnected, players, nextId,
                gameOver, id, colorStatus, clientsUnsent, toRecieve, newDirs,
                timedOutPlayers, commElapsed, packetBuilt, packetFailed,
                lateDirs>>
mainVars == <<mainPc, acceptingClients, running>>
acceptVars == <<acceptPc, id, colorStatus>>
tickVars == <<clientsUnsent, toRecieve, newDirs, timedOutPlayers, commElapsed,
              packetBuilt, packetFailed, lateDirs>>
gameVars == <<players, nextId, gameOver>>

(* --------------------------- Game (contract) --------------------------- *)
\* addPlayer(name): the roster gains a player under a fresh Id
addPlayer(roster, fresh) == roster \cup {fresh}

\* removePlayer(id): the player leaves the roster
removePlayer(roster, gone) == roster \ gone

\* movePlayers(dirs): players that collide die and leave the roster
movePlayers(roster, killed) == roster \ killed

ServerInit ==
  /\ mainPc = "splash"
  /\ acceptPc = "loop"
  /\ loopPc = "notStarted"
  /\ acceptingClients = TRUE
  /\ running = FALSE
  /\ frame = 0
  /\ serverMutex = "free"
  /\ clientSockets = {}
  /\ disconnected = {}
  /\ players = {}
  /\ nextId = 1
  /\ gameOver = FALSE
  /\ id = 0
  /\ colorStatus = "none"
  /\ clientsUnsent = {}
  /\ toRecieve = {}
  /\ newDirs = EmptyDirs
  /\ timedOutPlayers = {}
  /\ commElapsed = 0
  /\ packetBuilt = FALSE
  /\ packetFailed = FALSE
  /\ lateDirs = {}

\* a BotClient as constructed, before any snapshot has been received
BotFresh ==
  /\ botPc = "idle"
  /\ position = <<0, 0>>
  /\ occupied = {}
  /\ playerPositions = {}
  /\ previousDirection = -1
  /\ inertia = 0
  /\ inertialDamping = 1
  /\ attempts = 0
  /\ direction = -1
  /\ proposalDrawn = -1

Init == ServerInit /\ BotFresh

(* ------------------------------- main() -------------------------------- *)
\* splash screen loop: space pressed or window closed
MainSplash ==
  /\ mainPc = "splash"
  /\ mainPc' = "setAccepting"
  /\ UNCHANGED <<botVars, acceptPc, loopPc, acceptingClients, running, frame,
                 serverMutex, clientSockets, disconnected, gameVars, id,
                 colorStatus, tickVars>>

\* server.setAcceptingClients(false)
MainSetAccepting ==
  /\ mainPc = "setAccepting"
  /\ acceptingClients' = FALSE
  /\ mainPc' = "joinAccept"
  /\ UNCHANGED <<botVars, acceptPc, loopPc, running, frame, serverMutex,
                 clientSockets, disconnected, gameVars, id, colorStatus,
                 tickVars>>

\* acceptThread.join() returns once acceptClients has returned
AcceptJoinedBroken == TRUE
AcceptJoined == acceptPc = "done"

MainJoinAccept ==
  /\ mainPc = "joinAccept"
  /\ AcceptJoined
  /\ mainPc' = "startServer"
  /\ UNCHANGED <<botVars, acceptPc, loopPc, acceptingClients, running, frame,
                 serverMutex, clientSockets, disconnected, gameVars, id,
                 colorStatus, tickVars>>

\* std::thread serverThread(&GameServer::run): running = true, gameLoop starts
MainStartServer ==
  /\ mainPc = "startServer"
  /\ running' = TRUE
  /\ loopPc' = "while"
  /\ mainPc' = "render"
  /\ UNCHANGED <<botVars, acceptPc, acceptingClients, frame, serverMutex,
                 clientSockets, disconnected, gameVars, id, colorStatus,
                 tickVars>>

\* the render loop ends (window closed) and server.stop() is called
MainStop ==
  /\ mainPc = "render"
  /\ running' = FALSE
  /\ mainPc' = "joinServer"
  /\ UNCHANGED <<botVars, acceptPc, loopPc, acceptingClients, frame, serverMutex,
                 clientSockets, disconnected, gameVars, id, colorStatus,
                 tickVars>>

\* serverThread.join()
MainJoinServer ==
  /\ mainPc = "joinServer"
  /\ loopPc = "exited"
  /\ mainPc' = "done"
  /\ UNCHANGED <<botVars, acceptPc, loopPc, acceptingClients, running, frame,
                 serverMutex, clientSockets, disconnected, gameVars, id,
                 colorStatus, tickVars>>

(* --------------------------- acceptClients ----------------------------- *)
\* the loop condition of acceptClients
AcceptLoopCondBroken(accepting, n) == accepting /\ n <= maxClients
AcceptLoopCond(accepting, n) == accepting /\ n < maxClients

\* the locals of the previous iteration's body are gone when the condition
\* is tested again
AcceptLoopTest ==
  /\ acceptPc = "loop"
  /\ acceptPc' = IF AcceptLoopCond(acceptingClients, Cardinality(clientSockets))
                 THEN "listen" ELSE "done"
  /\ id' = 0
  /\ colorStatus' = "none"
  /\ UNCHANGED <<botVars, mainVars, loopPc, frame, serverMutex, clientSockets,
                 disconnected, gameVars, tickVars>>

\* listener.accept on the non-blocking listener: Done or not
AcceptListen ==
  /\ acceptPc = "listen"
  /\ \E done \in BOOLEAN : acceptPc' = IF done THEN "recvName" ELSE "loop"
  /\ UNCHANGED <<botVars, mainVars, loopPc, frame, serverMutex, clientSockets,
                 disconnected, gameVars, id, colorStatus, tickVars>>

\* clientSocket->receive(namePacket): Done or not; not Done drops the socket
AcceptRecvName ==
  /\ acceptPc = "recvName"
  /\ \E done \in BOOLEAN : acceptPc' = IF done THEN "addPlayer" ELSE "loop"
  /\ UNCHANGED <<botVars, mainVars, loopPc, frame, serverMutex, clientSockets,
                 disconnected, gameVars, id, colorStatus, tickVars>>

\* auto id = game->addPlayer(playerName)
AcceptAddPlayer ==
  /\ acceptPc = "addPlayer"
  /\ id' = nextId
  /\ players' = addPlayer(players, nextId)
  /\ nextId' = nextId + 1
  /\ acceptPc' = "sendColor"
  /\ UNCHANGED <<botVars, mainVars, loopPc, frame, serverMutex, clientSockets,
                 disconnected, gameOver, colorStatus, tickVars>>

\* clientSocket->send(colorPacket): a failure is only logged
AcceptSendColor ==
  /\ acceptPc = "sendColor"
  /\ \E st \in {"Done", "Error"} : colorStatus' = st
  /\ acceptPc' = "register"
  /\ UNCHANGED <<botVars, mainVars, loopPc, frame, serverMutex, clientSockets,
                 disconnected, gameVars, id, tickVars>>

\* clientSockets[id] = clientSocket
AcceptRegister ==
  /\ acceptPc = "register"
  /\ clientSockets' = clientSockets \cup {id}
  /\ acceptPc' = "loop"
  /\ UNCHANGED <<botVars, mainVars, loopPc, frame, serverMutex, disconnected,
                 gameVars, id, colorStatus, tickVars>>

AcceptNext ==
  \/ AcceptLoopTest
  \/ AcceptListen
  \/ AcceptRecvName
  \/ AcceptAddPlayer
  \/ AcceptSendColor
  \/ AcceptRegister

(* ----------------------------- environment ----------------------------- *)
\* the peer of a registered connection goes away
ClientDisconnects ==
  /\ \E c \in clientSockets \ disconnected : disconnected' = disconnected \cup {c}
  /\ UNCHANGED <<botVars, mainVars, acceptVars, loopPc, frame, serverMutex,
                 clientSockets, gameVars, tickVars>>

(* ---------------------------- checkPlayers ----------------------------- *)
\* a registered connection is pruned when its player is absent from the
\* roster or its socket has no remote address
ShouldRemoveOnlyDead(c, roster, gone) == c \notin roster
ShouldRemoveBroken(c, roster, gone) == c \in gone
ShouldRemove(c, roster, gone) == c \notin roster \/ c \in gone

(* ------------------------------ gameLoop ------------------------------- *)
\* while (running && !game->isGameOver())
LoopWhile ==
  /\ loopPc = "while"
  /\ loopPc' = IF running /\ ~gameOver THEN "if" ELSE "exited"
  /\ UNCHANGED <<botVars, mainVars, acceptVars, frame, serverMutex, clientSockets,
                 disconnected, gameVars, tickVars>>

\* if (clock.getElapsedTime().asMilliseconds() >= 33): not yet
LoopSpin ==
  /\ loopPc = "if"
  /\ loopPc' = "while"
  /\ UNCHANGED <<botVars, mainVars, acceptVars, frame, serverMutex, clientSockets,
                 disconnected, gameVars, tickVars>>

\* the tick boundary is reached: clock.restart()
LoopTickBoundary ==
  /\ loopPc = "if"
  /\ frame < MaxFrame
  /\ loopPc' = "lock"
  /\ UNCHANGED <<botVars, mainVars, acceptVars, frame, serverMutex, clientSockets,
                 disconnected, gameVars, tickVars>>

\* std::scoped_lock lock(serverMutex) in gameLoop
LoopLock ==
  /\ loopPc = "lock"
  /\ serverMutex = "free"
  /\ serverMutex' = "held"
  /\ loopPc' = "checkPlayers"
  /\ UNCHANGED <<botVars, mainVars, acceptVars, frame, clientSockets, disconnected,
                 gameVars, tickVars>>

\* game->setFrame(frame); checkPlayers() locks serverMutex, a std::mutex the
\* calling thread already owns.  The behaviour is undefined; the outcomes
\* are: the thread blocks forever, ...
CheckPlayersDeadlock ==
  /\ loopPc = "checkPlayers"
  /\ serverMutex = "held"
  /\ loopPc' = "blocked"
  /\ UNCHANGED <<botVars, mainVars, acceptVars, frame, serverMutex, clientSockets,
                 disconnected, gameVars, tickVars>>

\* ... lock() throws std::system_error, caught by gameLoop's handler, ...
CheckPlayersThrows ==
  /\ loopPc = "checkPlayers"
  /\ serverMutex = "held"
  /\ loopPc' = "caught"
  /\ UNCHANGED <<botVars, mainVars, acceptVars, frame, serverMutex, clientSockets,
                 disconnected, gameVars, tickVars>>

\* ... or the second lock() returns.
CheckPlayersProceeds ==
  /\ loopPc = "checkPlayers"
  /\ serverMutex = "held"
  /\ loopPc' = "prune"
  /\ UNCHANGED <<botVars, mainVars, acceptVars, frame, serverMutex, clientSockets,
                 disconnected, gameVars, tickVars>>

\* the loop of checkPlayers over clientSockets; its scoped_lock unlocks
CheckPlayersPrune ==
  /\ loopPc = "prune"
  /\ LET removed == {c \in clientSockets : ShouldRemove(c, players, disconnected)}
     IN /\ players' = removePlayer(players, removed)
        /\ clientSockets' = clientSockets \ removed
        /\ disconnected' = disconnected \ removed
  /\ serverMutex' = "free"
  /\ loopPc' = "seed"
  /\ UNCHANGED <<botVars, mainVars, acceptVars, frame, nextId, gameOver, tickVars>>

\* auto clientsUnsent = clientSockets; toRecieve, newDirs, timedOutPlayers
\* are declared empty; clientCommunicationClock.restart()
LoopSeed ==
  /\ loopPc = "seed"
  /\ clientsUnsent' = clientSockets
  /\ toRecieve' = {}
  /\ newDirs' = EmptyDirs
  /\ timedOutPlayers' = {}
  /\ commElapsed' = 0
  /\ packetBuilt' = FALSE
  /\ packetFailed' = FALSE
  /\ lateDirs' = {}
  /\ loopPc' = "loopcond"
  /\ UNCHANGED <<botVars, mainVars, acceptVars, frame, serverMutex, clientSockets,
                 disconnected, gameVars>>

\* while (clientsUnsent.size() > 0 || toRecieve.size() > 0)
LoopCond ==
  /\ loopPc = "loopcond"
  /\ loopPc' = IF clientsUnsent # {} \/ toRecieve # {} THEN "send" ELSE "timeouts"
  /\ UNCHANGED <<botVars, mainVars, acceptVars, frame, serverMutex, clientSockets,
                 disconnected, gameVars, tickVars>>

\* sendGameState(clientsUnsent): nobody when the packet cannot be built,
\* else the clients whose send returned Done
sendGameState(built, sent) == IF built THEN sent ELSE {}

\* toRecieve after the loop over successful
AfterSendBroken(recv, successful) == recv
AfterSend(recv, successful) == recv \cup successful

\* with no client to send to, sendGameState returns before building a packet
LoopSend ==
  /\ loopPc = "send"
  /\ \E built \in BOOLEAN, sent \in SUBSET (clientsUnsent \ disconnected) :
       LET successful == sendGameState(built, sent)
       IN /\ clientsUnsent' = clientsUnsent \ successful
          /\ toRecieve' = AfterSend(toRecieve, successful)
          /\ packetBuilt' = (packetBuilt \/ (clientsUnsent # {} /\ built))
          /\ packetFailed' = (packetFailed \/ (clientsUnsent # {} /\ ~built))
  /\ loopPc' = "recv"
  /\ UNCHANGED <<botVars, mainVars, acceptVars, frame, serverMutex, clientSockets,
                 disconnected, gameVars, newDirs, timedOutPlayers, commElapsed,
                 lateDirs>>

\* receiveClientInput(toRecieve): game->getPlayers().at(id) throws for an id
\* outside the roster, so only roster members can be read from
Readable(recv) == (recv \cap players) \ disconnected

\* newDirs after the loop over succesfulrec
MergeDirsBroken(dirs, rec) == rec
MergeDirs(dirs, rec) ==
  [c \in DOMAIN dirs \cup DOMAIN rec |-> IF c \in DOMAIN rec THEN rec[c] ELSE dirs[c]]

\* the inputs that can have reached their socket only after the deadline
\* when receive is called at time now
LateInputs(got, now) ==
  IF now > max_client_communication_time THEN SUBSET got ELSE {{}}

\* receiveClientInput(toRecieve), called dt after the previous reading of the
\* clock: the sockets are not blocking, receive returns what has arrived by now
ReceiveAfter(dt) ==
  /\ loopPc = "recv"
  /\ \E got \in SUBSET Readable(toRecieve) :
       \E succesfulrec \in [got -> Dirs], late \in LateInputs(got, commElapsed + dt) :
          /\ commElapsed' = commElapsed + dt
          /\ toRecieve' = toRecieve \ got
          /\ newDirs' = MergeDirs(newDirs, succesfulrec)
          /\ lateDirs' = lateDirs \cup late
  /\ loopPc' = "deadline"
  /\ UNCHANGED <<botVars, mainVars, acceptVars, frame, serverMutex, clientSockets,
                 disconnected, gameVars, clientsUnsent, timedOutPlayers,
                 packetBuilt, packetFailed>>

LoopRecv == \E dt \in Durations : ReceiveAfter(dt)

\* clientCommunicationClock.getElapsedTime() > max_client_communication_time
DeadlineExceededEarly(elapsed) == elapsed > 0
DeadlineExceededBroken(elapsed) == FALSE
DeadlineExceeded(elapsed) == elapsed > max_client_communication_time

\* the clients marked for removal when the deadline fires
MarkTimedOutOnlyRecv(unsent, recv) == recv
MarkTimedOutBroken(unsent, recv) == unsent
MarkTimedOut(unsent, recv) == unsent \cup recv

\* the deadline check reads the clock
LoopDeadline ==
  /\ loopPc = "deadline"
  /\ IF DeadlineExceeded(commElapsed)
     THEN /\ timedOutPlayers' = MarkTimedOut(clientsUnsent, toRecieve)
          /\ loopPc' = "timeouts"
     ELSE /\ timedOutPlayers' = timedOutPlayers
          /\ loopPc' = "loopcond"
  /\ UNCHANGED <<botVars, mainVars, acceptVars, frame, serverMutex, clientSockets,
                 disconnected, gameVars, clientsUnsent, toRecieve, newDirs,
                 commElapsed, packetBuilt, packetFailed, lateDirs>>

\* newDirs.erase(id) for every timed out id
EraseDirs(dirs, gone) == [c \in DOMAIN dirs \ gone |-> dirs[c]]

LoopTimeoutsBroken ==
  /\ loopPc = "timeouts"
  /\ clientSockets' = clientSockets \ timedOutPlayers
  /\ disconnected' = disconnected \ timedOutPlayers
  /\ newDirs' = EraseDirs(newDirs, timedOutPlayers)
  /\ loopPc' = "apply"
  /\ UNCHANGED <<botVars, mainVars, acceptVars, frame, serverMutex, gameVars,
                 clientsUnsent, toRecieve, timedOutPlayers, commElapsed,
                 packetBuilt, packetFailed, lateDirs>>

\* for (auto id : timedOutPlayers) removePlayer, clientSockets.erase, newDirs.erase
LoopTimeouts ==
  /\ loopPc = "timeouts"
  /\ players' = removePlayer(players, timedOutPlayers)
  /\ clientSockets' = clientSockets \ timedOutPlayers
  /\ disconnected' = disconnected \ timedOutPlayers
  /\ newDirs' = EraseDirs(newDirs, timedOutPlayers)
  /\ loopPc' = "apply"
  /\ UNCHANGED <<botVars, mainVars, acceptVars, frame, serverMutex, nextId, gameOver,
                 clientsUnsent, toRecieve, timedOutPlayers, commElapsed,
                 packetBuilt, packetFailed, lateDirs>>

\* frame++
NextFrameBroken(f) == f + 2
NextFrame(f) == f + 1

\* game->movePlayers(newDirs); frame++; the try block ends and its locals
\* clientsUnsent, toRecieve, newDirs and timedOutPlayers are destroyed
LoopApply ==
  /\ loopPc = "apply"
  /\ \E killed \in SUBSET players : players' = movePlayers(players, killed)
  /\ \E over \in BOOLEAN : gameOver' = (gameOver \/ over)
  /\ frame' = NextFrame(frame)
  /\ clientsUnsent' = {}
  /\ toRecieve' = {}
  /\ newDirs' = EmptyDirs
  /\ timedOutPlayers' = {}
  /\ packetBuilt' = FALSE
  /\ packetFailed' = FALSE
  /\ lateDirs' = {}
  /\ loopPc' = "unlock"
  /\ UNCHANGED <<botVars, mainVars, acceptVars, serverMutex, clientSockets,
                 disconnected, nextId, commElapsed>>

\* catch (const std::exception &e): the error is logged
LoopCatch ==
  /\ loopPc = "caught"
  /\ loopPc' = "unlock"
  /\ UNCHANGED <<botVars, mainVars, acceptVars, frame, serverMutex, clientSockets,
                 disconnected, gameVars, tickVars>>

\* end of the if block: gameLoop's scoped_lock unlocks
LoopUnlock ==
  /\ loopPc = "unlock"
  /\ serverMutex' = "free"
  /\ loopPc' = "while"
  /\ UNCHANGED <<botVars, mainVars, acceptVars, frame, clientSockets, disconnected,
                 gameVars, tickVars>>

GameLoopNext ==
  \/ LoopWhile
  \/ LoopSpin
  \/ LoopTickBoundary
  \/ LoopLock
  \/ CheckPlayersDeadlock
  \/ CheckPlayersThrows
  \/ CheckPlayersProceeds
  \/ CheckPlayersPrune
  \/ LoopSeed
  \/ LoopCond
  \/ LoopSend
  \/ LoopRecv
  \/ LoopDeadline
  \/ LoopTimeouts
  \/ LoopApply
  \/ LoopCatch
  \/ LoopUnlock

MainNext ==
  \/ MainSplash
  \/ MainSetAccepting
  \/ MainJoinAccept
  \/ MainStartServer
  \/ MainStop
  \/ MainJoinServer

Next == MainNext \/ AcceptNext \/ GameLoopNext \/ ClientDisconnects

Spec == Init /\ [][Next]_vars

\* the server thread is scheduled, and the communication clock advances
FairSpec ==
  /\ Spec
  /\ WF_vars(GameLoopNext)
  /\ SF_vars(\E dt \in Durations \ {0} : ReceiveAfter(dt))

TypeOK ==
  /\ clientSockets \subseteq Ids
  /\ disconnected \subseteq clientSockets
  /\ players \subseteq Ids
  /\ frame \in 0..MaxFrame
  /\ DOMAIN newDirs \subseteq Ids

(* ============================ the bot client =========================== *)
\* the cells of the grid of the snapshot
Cells == (0..(GridSize - 1)) \X (0..(GridSize - 1))

\* state.isInsideGrid(pos)
isInsideGrid(pos) == pos \in Cells

\* getDirectionFromValue(value): the Direction with that code
getDirectionFromValue(value) == value

\* getDirectionVector(direction): north, east, south, west; a value that is
\* no direction code moves nowhere
getDirectionVector(d) ==
  CASE d = 0 -> <<0, -1>>
    [] d = 1 -> <<1, 0>>
    [] d = 2 -> <<0, 1>>
    [] d = 3 -> <<-1, 0>>
    [] OTHER -> <<0, 0>>

\* my_player.position + getDirectionVector(direction)
new_pos(d) ==
  <<position[1] + getDirectionVector(d)[1], position[2] + getDirectionVector(d)[2]>>

\* BotClient::is_valid_move
is_valid_moveBroken(d) ==
  /\ isInsideGrid(new_pos(d))
  /\ new_pos(d) \notin playerPositions
is_valid_move(d) ==
  /\ isInsideGrid(new_pos(d))
  /\ new_pos(d) \notin playerPositions
  /\ new_pos(d) \notin occupied

\* the upper end of dist, built once with inertialDamping = 1.0
DistMax == 3 + inertia

\* the cells of the grid next to pos: the only cells is_valid_move reads
Neighbours(pos) == {c \in Cells : \E d \in 0..3 :
                      c = <<pos[1] + getDirectionVector(d)[1], pos[2] + getDirectionVector(d)[2]>>}

\* a snapshot and player state at the call of decideMove: the bot is one of
\* the listed players, any of the cells next to it may hold a trail and at
\* most one of them another player; previousDirection is -1 (no move made
\* yet) or the last move; with inertia 0 previousDirection is never read
BotInit ==
  /\ ServerInit
  /\ botPc = "idle"
  /\ position \in Cells
  /\ occupied \in SUBSET Neighbours(position)
  /\ \E others \in {S \in SUBSET Neighbours(position) : Cardinality(S) <= 1} :
       playerPositions = {position} \cup others
  /\ inertia \in {0, MaxInertia}
  /\ previousDirection \in (IF inertia = 0 THEN {-1} ELSE -1..3)
  /\ inertialDamping = 1
  /\ attempts = 0
  /\ direction = -1
  /\ proposalDrawn = -1

\* decideMove is entered: attempts = 0, inertialDamping = 1.0, dist is built
BotDecideStart ==
  /\ botPc = "idle"
  /\ attempts' = 0
  /\ inertialDamping' = 1
  /\ botPc' = "draw"
  /\ UNCHANGED <<serverVars, position, occupied, playerPositions,
                 previousDirection, inertia, direction, proposalDrawn>>

\* if (attempts >= max_attempts) throw std::runtime_error
BotExhausted ==
  /\ botPc = "draw"
  /\ attempts >= max_attempts
  /\ botPc' = "threw"
  /\ UNCHANGED <<serverVars, position, occupied, playerPositions,
                 previousDirection, inertia, inertialDamping, attempts,
                 direction, proposalDrawn>>

\* one pass of the do-while body and its condition
BotAttempt ==
  /\ botPc = "draw"
  /\ attempts < max_attempts
  /\ \E draw \in 0..DistMax :
       LET proposal == IF draw > 3 THEN previousDirection ELSE draw
       IN /\ proposalDrawn' = draw
          /\ inertialDamping' = IF draw > 3 THEN 0 ELSE inertialDamping
          /\ direction' = getDirectionFromValue(proposal)
          /\ botPc' = IF is_valid_move(getDirectionFromValue(proposal))
                      THEN "returned" ELSE "draw"
  /\ attempts' = attempts + 1
  /\ UNCHANGED <<serverVars, position, occupied, playerPositions,
                 previousDirection, inertia>>

\* the locals of decideMove once it has returned or thrown
DecideMoveLeft ==
  /\ inertialDamping' = 1
  /\ attempts' = 0
  /\ direction' = -1
  /\ proposalDrawn' = -1

\* connection.isActive() in the condition of run's loop: the connection class
\* is not among the sources, its answer is either value
RunLoopTest(active) == IF active THEN "receive" ELSE "stopped"

\* sendMove after decideMove returned: previousDirection is set and the move
\* is sent (a failure to send is caught and logged); run tests its loop
BotSendMove ==
  /\ botPc = "returned"
  /\ previousDirection' = direction
  /\ DecideMoveLeft
  /\ \E active \in BOOLEAN : botPc' = RunLoopTest(active)
  /\ UNCHANGED <<serverVars, position, occupied, playerPositions, inertia>>

\* sendMove after decideMove threw: the catch block logs the error, nothing
\* is sent; sendMove returns and run tests its loop condition
BotCatchExhaustion ==
  /\ botPc = "threw"
  /\ DecideMoveLeft
  /\ \E active \in BOOLEAN : botPc' = RunLoopTest(active)
  /\ UNCHANGED <<serverVars, position, occupied, playerPositions,
                 previousDirection, inertia>>

\* receiveGameState: state and my_player are replaced by a new snapshot, or
\* kept when receiving throws; then sendMove is entered
BotReceiveGameState ==
  /\ botPc = "receive"
  /\ \/ UNCHANGED <<position, occupied, playerPositions>>
     \/ /\ position' \in Cells
        /\ occupied' \in SUBSET Neighbours(position')
        /\ \E others \in {S \in SUBSET Neighbours(position') : Cardinality(S) <= 1} :
             playerPositions' = {position'} \cup others
  /\ botPc' = "idle"
  /\ UNCHANGED <<serverVars, previousDirection, inertia, inertialDamping,
                 attempts, direction, proposalDrawn>>

BotNext ==
  \/ BotDecideStart
  \/ BotExhausted
  \/ BotAttempt
  \/ BotSendMove
  \/ BotCatchExhaustion
  \/ BotReceiveGameState

SpecBot == BotInit /\ [][BotNext]_vars

\* C10: decideMove returns only a direction whose target cell is inside the
\* grid, is no known player position and is empty; it raises the exhaustion
\* error only after exactly 200 attempts and never makes a 201st attempt.
C10_ValidOrExhausted ==
  /\ botPc = "returned" =>
       /\ direction \in 0..3
       /\ new_pos(direction) \in Cells
       /\ new_pos(direction) \notin playerPositions
       /\ new_pos(direction) \notin occupied
  /\ botPc = "threw" => attempts = max_attempts
  /\ attempts <= max_attempts

C10_Witness ==
  /\ botPc = "returned"
  /\ attempts = max_attempts
  /\ occupied # {}
  /\ previousDirection = -1
  /\ inertialDamping = 0

\* C11: after decideMove has exhausted its attempts the run loop ends: the
\* client's next step stops it, no snapshot is received and no move decided
\* or sent again.
C11_ExhaustionStopsRun ==
  [][botPc = "threw" => botPc' \in {"threw", "stopped"}]_vars

\* C15: once a draw of this decideMove call has exceeded 3 and set
\* inertialDamping to 0, every later draw of the call is in 0..3.
C15_NoInertiaAfterRepeat ==
  [][(botPc = "draw" /\ inertialDamping = 0 /\ attempts' = attempts + 1)
       => proposalDrawn' <= 3]_vars

(* ======================= properties of the server ====================== *)
\* the server thread holds gameLoop's lock: from after line 207 to the unlock
InTick ==
  loopPc \in {"checkPlayers", "blocked", "prune", "seed", "loopcond", "send",
              "recv", "deadline", "timeouts", "apply", "caught", "unlock"}

\* the server thread is in the inner while loop of BroadcastCollect
InLoop == loopPc \in {"loopcond", "send", "recv", "deadline"}

\* the clients left in pending-send or pending-receive
Pending == clientsUnsent \cup toRecieve

\* C1: a client still in clientsUnsent or toRecieve when the deadline fires
\* is out of clientSockets, out of the roster and out of newDirs when
\* movePlayers is called; once gameLoop runs no connection is registered and
\* no player added again, and a tick only ever sends to registered clients,
\* so the next tick neither sends to it nor lists it.
C1_TimedOutRemoved ==
  /\ [](loopPc = "apply" =>
          Pending \cap (clientSockets \cup players \cup DOMAIN newDirs) = {})
  /\ [][(loopPc = "timeouts" /\ loopPc' = "apply") =>
          Pending \cap (clientSockets' \cup players' \cup DOMAIN newDirs') = {}]_vars
  /\ [][loopPc # "notStarted" =>
          (clientSockets' \subseteq clientSockets /\ players' \subseteq players)]_vars
  /\ [](InLoop => (Pending \cup DOMAIN newDirs) \subseteq clientSockets)

C1_Witness ==
  /\ loopPc = "apply"
  /\ toRecieve # {}
  /\ timedOutPlayers = Pending
  /\ DOMAIN newDirs # {}

\* C2: frame never decreases; the only step that changes it is the one that
\* applies the batch (movePlayers), and that step adds exactly 1.
C2_FrameStep ==
  /\ [][frame' = frame \/ (loopPc = "apply" /\ loopPc' = "unlock")]_vars
  /\ [][(loopPc = "apply" /\ loopPc' = "unlock") => frame' = frame + 1]_vars

C2_Witness == frame = MaxFrame /\ loopPc = "unlock"

\* C3: inside the BroadcastCollect loop clientsUnsent, toRecieve and the keys
\* of newDirs partition clientSockets; a client enters toRecieve only from
\* clientsUnsent, enters newDirs only from toRecieve, never returns to
\* clientsUnsent, and a recorded direction is never overwritten.
C3_PendingSets ==
  /\ [](InLoop =>
          /\ clientsUnsent \cap toRecieve = {}
          /\ clientsUnsent \cap DOMAIN newDirs = {}
          /\ toRecieve \cap DOMAIN newDirs = {}
          /\ clientsUnsent \cup toRecieve \cup DOMAIN newDirs = clientSockets)
  /\ [][(InLoop /\ InLoop') =>
          /\ clientsUnsent' \subseteq clientsUnsent
          /\ (toRecieve' \ toRecieve) \subseteq (clientsUnsent \ clientsUnsent')
          /\ (DOMAIN newDirs' \ DOMAIN newDirs) \subseteq toRecieve
          /\ \A c \in DOMAIN newDirs : c \in DOMAIN newDirs' /\ newDirs'[c] = newDirs[c]]_vars

C3_Witness ==
  /\ loopPc = "deadline"
  /\ clientsUnsent # {}
  /\ DOMAIN newDirs # {}

\* C4: the BroadcastCollect loop is always left; it is left only with both
\* pending sets empty or with the clock past 50 ms; and no iteration starts
\* after a reading past 50 ms.
C4_LoopTerminates ==
  /\ InLoop ~> ~InLoop
  /\ [](InLoop /\ loopPc # "deadline" => commElapsed <= max_client_communication_time)
  /\ [][(InLoop /\ ~InLoop') =>
          \/ Pending = {}
          \/ commElapsed' > max_client_communication_time]_vars
  /\ [][(loopPc = "deadline" /\ loopPc' # "deadline"
            /\ commElapsed' > max_client_communication_time) =>
          loopPc' = "timeouts"]_vars

C4_Witness ==
  /\ loopPc = "timeouts"
  /\ commElapsed > max_client_communication_time
  /\ clientsUnsent # {}
  /\ DOMAIN newDirs = {}

\* C5: a tick that began neither blocks in checkPlayers on the mutex gameLoop
\* already holds nor is abandoned before Apply.
C5_TickCompletes == loopPc \notin {"blocked", "caught"}

\* C6: while the server thread is inside a tick, no player is added and no
\* connection is registered.
C6_NoJoinInTick ==
  [][InTick => (nextId' = nextId /\ clientSockets' \subseteq clientSockets
                /\ players' \subseteq players)]_vars

C6_Witness == InTick /\ loopPc = "send" /\ Cardinality(clientSockets) = maxClients

\* C7: after a handshake whose colour reply failed to send, the connection is
\* not registered and its player is not in the roster.
C7_FailedHandshakeDiscarded ==
  (acceptPc \in {"loop", "listen", "recvName", "done"} /\ colorStatus = "Error"
     /\ loopPc = "notStarted")
    => (id \notin clientSockets /\ id \notin players)

\* C8: clientSockets never has more than maxClients entries, and at the loop
\* test with maxClients registered or accepting false the accept thread
\* leaves the loop without another accept.
C8_Capacity ==
  /\ [](Cardinality(clientSockets) <= maxClients)
  /\ [][(acceptPc = "loop" /\ (~acceptingClients \/ Cardinality(clientSockets) >= maxClients))
          => acceptPc' \in {"loop", "done"}]_vars
  /\ [](acceptPc = "done" =>
          (~acceptingClients \/ Cardinality(clientSockets) >= maxClients))

C8_Witness ==
  /\ acceptPc = "done"
  /\ acceptingClients
  /\ Cardinality(clientSockets) = maxClients

\* C9 as stated: outside a tick every registered id is in the roster.
C9_RegisteredAliveAtBoundary ==
  loopPc \in {"notStarted", "while", "if", "lock", "exited"} => clientSockets \subseteq players

\* C9 amended: every registered id is in the roster while clients are being
\* accepted, and in a tick from the end of checkPlayers to movePlayers.
C9_RegisteredAliveAfterReconcile ==
  loopPc \in {"notStarted", "seed", "loopcond", "send", "recv", "deadline",
              "timeouts", "apply"}
    => clientSockets \subseteq players

C9_Witness ==
  /\ loopPc = "seed"
  /\ frame >= 1
  /\ clientSockets # {}
  /\ Cardinality(players) < nextId - 1

\* C12: once running is false or the game is over, gameLoop has exited or
\* still has a step to take towards its exit: it is never stuck.
C12_StopExits ==
  (loopPc # "notStarted" /\ (~running \/ gameOver))
    => (loopPc = "exited" \/ ENABLED GameLoopNext)

\* C13: after a failed snapshot build no client is sent to or received from
\* in the rest of the tick's BroadcastCollect, and the batch stays as it was.
C13_BuildFailureAborts ==
  [][(InLoop /\ InLoop' /\ packetFailed)
       => UNCHANGED <<clientsUnsent, toRecieve, newDirs>>]_vars

\* C14: at the call of movePlayers no direction that reached its socket after
\* the 50 ms deadline is in the batch, and its sender is no longer registered.
C14_LateInputDiscarded ==
  loopPc = "apply" => (lateDirs \cap DOMAIN newDirs = {} /\ lateDirs \cap clientSockets = {})

\* C16: the prune step of checkPlayers removes from clientSockets and from the
\* roster exactly the connections whose player is absent or whose peer is
\* gone, every other connection and player is kept, and the seed of the tick
\* is the set of connections that remain.
C16_ReconcilePrunes ==
  /\ [][(loopPc = "prune" /\ loopPc' = "seed") =>
          /\ clientSockets' = {c \in clientSockets : c \in players /\ c \notin disconnected}
          /\ players' = players \ (clientSockets \ clientSockets')
          /\ clientSockets' \subseteq players']_vars
  /\ [][(loopPc = "seed" /\ loopPc' = "loopcond") =>
          /\ clientsUnsent' = clientSockets
          /\ UNCHANGED <<clientSockets, players>>]_vars
  /\ [](InLoop => Pending \subseteq clientSockets)

C16_Witness ==
  /\ loopPc = "seed"
  /\ frame = 0
  /\ clientSockets # {}
  /\ Cardinality(players) < nextId - 1

\* C17: a send step moves clients from clientsUnsent to toRecieve and touches
\* nothing else; a receive step moves clients from toRecieve to newDirs and
\* keeps every direction recorded before; a client that fails stays where it
\* was, and neither step changes the registry or the roster.
C17_FailureIsLocal ==
  /\ [][(loopPc = "send" /\ loopPc' = "recv") =>
          /\ clientsUnsent' \subseteq clientsUnsent
          /\ toRecieve' = toRecieve \cup (clientsUnsent \ clientsUnsent')
          /\ UNCHANGED <<newDirs, clientSockets, players, timedOutPlayers>>]_vars
  /\ [][(loopPc = "recv" /\ loopPc' = "deadline") =>
          /\ toRecieve' \subseteq toRecieve
          /\ DOMAIN newDirs' = DOMAIN newDirs \cup (toRecieve \ toRecieve')
          /\ \A c \in DOMAIN newDirs \ toRecieve : newDirs'[c] = newDirs[c]
          /\ UNCHANGED <<clientsUnsent, clientSockets, players, timedOutPlayers>>]_vars

C17_Witness ==
  /\ loopPc = "deadline"
  /\ 1 \in toRecieve
  /\ 2 \in DOMAIN newDirs
  /\ commElapsed = 0

C19_BatchIsRegistry ==
  loopPc = "apply" => DOMAIN newDirs = clientSockets

C19_Witness ==
  /\ loopPc = "apply"
  /\ DOMAIN newDirs # {}
  /\ timedOutPlayers # {}

\* C20: while no packet has been built in a tick nobody is sent to, the loop
\* is left only past the deadline with every registered client marked timed
\* out, and movePlayers is reached with no client, no player and no direction.
C20_AllBuildsFail ==
  /\ [](InLoop /\ ~packetBuilt =>
          clientsUnsent = clientSockets /\ toRecieve = {} /\ newDirs = EmptyDirs)
  /\ [][(InLoop /\ ~InLoop' /\ ~packetBuilt' /\ clientSockets # {}) =>
          /\ commElapsed' > max_client_communication_time
          /\ timedOutPlayers' = clientSockets]_vars
  /\ [](loopPc = "apply" /\ ~packetBuilt =>
          clientSockets = {} /\ players = {} /\ newDirs = EmptyDirs)

C20_Witness ==
  /\ loopPc = "apply"
  /\ packetFailed
  /\ ~packetBuilt
  /\ Cardinality(timedOutPlayers) = maxClients

====
